---- MODULE Spec2Model ----
(***************************************************************************)
(* Model of the `codex subagents` command (codex-rs/cli/src/               *)
(* subagents_cmd.rs): toggle flags, layered override assembly, the         *)
(* executor argument vector, and the list/show/run handlers.               *)
(*                                                                         *)
(* A string is a sequence of lexemes.  A lexeme is either one character    *)
(* that matters to a grammar (the quote, the backslash, the newline, the   *)
(* dot, the equals sign) or an indivisible run of other characters (an     *)
(* identifier, a literal of the program).  String concatenation is \o.     *)
(* Where no grammar looks inside a string (a subagent name, an argv token, *)
(* a display text) the string is written as its single lexeme.             *)
(* An Option<T> is <<>> (None) or <<v>> (Some(v)).                         *)
(***************************************************************************)
EXTENDS Naturals, Sequences, FiniteSets, TLC

VARIABLES
    cmdline,            \* the command line as typed (input, never changed)
    cfg,                \* ConfigToml.subagents of the base configuration (input)
    enable,             \* SubagentToggleArgs.enable
    disable,            \* SubagentToggleArgs.disable
    config_overrides,   \* SubagentsCli.config_overrides.raw_overrides
    pc,                 \* "start" before SubagentsCli::run, "done" after
    subagent_toggles,   \* ConfigOverrides.subagent_toggles handed to the loader
    subagents,          \* Config.subagents as resolved by load_config
    argv,               \* the token vector given to ExecCli::parse_from
    raw_overrides,      \* exec_cli.config_overrides.raw_overrides
    dispatched,         \* the calls of codex_exec::run_main, in order
    stdout,             \* the lines printed
    err                 \* the anyhow error returned, as Option<string>

vars == <<cmdline, cfg, enable, disable, config_overrides, pc, subagent_toggles,
          subagents, argv, raw_overrides, dispatched, stdout, err>>

----------------------------------------------------------------------------
(* Bounds of the model *)

MaxFlags == 3
MaxRunFlags == 2
MaxOverrides == 2
MaxPromptLen == 4

----------------------------------------------------------------------------
(* Generic helpers *)

None == <<>>
Some(v) == <<v>>
IsSome(o) == o # <<>>
Unwrap(o) == o[1]

SeqsUpTo(S, n) == UNION {[1..k -> S] : k \in 0..n}

Range(s) == {s[i] : i \in DOMAIN s}

RECURSIVE Concat(_)
Concat(ss) == IF ss = <<>> THEN <<>> ELSE Head(ss) \o Concat(Tail(ss))

EmptyMap == [n \in {} |-> FALSE]

\* HashMap::insert / BTreeMap insert: add or replace one key
Insert(m, k, v) == [x \in DOMAIN m \cup {k} |-> IF x = k THEN v ELSE m[x]]

DQ == "\""
BS == "\\"
NL == "\n"
EQ == "="
DOT == "."
\* the backquote character, which a TLA+ string cannot hold
BQ == "BACKQUOTE"

----------------------------------------------------------------------------
(* Toggle Set: SubagentToggleArgs *)

\* one `--enable <name>` or `--disable <name>` occurrence on the command line
ToggleFlag(kind, name) == [kind |-> kind, name |-> name]

\* ArgAction::Append on `enable` / `disable`: each Vec collects the values of
\* its own flag, in the order of their occurrences
RECURSIVE AppendValues(_, _)
AppendValues(flags, kind) ==
    IF flags = <<>> THEN <<>>
    ELSE IF Head(flags).kind = kind
         THEN <<Head(flags).name>> \o AppendValues(Tail(flags), kind)
         ELSE AppendValues(Tail(flags), kind)

\* for name in names { toggles.insert(name.clone(), value) }
RECURSIVE InsertAll(_, _, _)
InsertAll(m, names, value) ==
    IF names = <<>> THEN m
    ELSE InsertAll(Insert(m, Head(names), value), Tail(names), value)

\* format!("subagents.{name}.enabled=true") and ...=false
EnabledOverride(name, value) ==
    <<"subagents", DOT, name, DOT, "enabled", EQ, IF value THEN "true" ELSE "false">>

\* for name in names { overrides.push(format!(...)) }
RECURSIVE PushAll(_, _, _)
PushAll(overrides, names, value) ==
    IF names = <<>> THEN overrides
    ELSE PushAll(Append(overrides, EnabledOverride(Head(names), value)), Tail(names), value)

\* mutant: the enable loop runs after the disable loop
to_map_enable_last(en, dis) == InsertAll(InsertAll(EmptyMap, dis, FALSE), en, TRUE)

to_map(en, dis) == InsertAll(InsertAll(EmptyMap, en, TRUE), dis, FALSE)

RECURSIVE Dedup(_)
Dedup(s) ==
    IF s = <<>> THEN <<>>
    ELSE LET r == Dedup(SubSeq(s, 1, Len(s) - 1))
         IN  IF s[Len(s)] \in Range(r) THEN r ELSE Append(r, s[Len(s)])

\* mutant: a repeated flag is emitted once
to_cli_overrides_dedup(en, dis) ==
    Dedup(PushAll(PushAll(<<>>, en, TRUE), dis, FALSE))

\* mutant: the disable loop runs before the enable loop
to_cli_overrides_disable_first(en, dis) ==
    PushAll(PushAll(<<>>, dis, FALSE), en, TRUE)

to_cli_overrides(en, dis) == PushAll(PushAll(<<>>, en, TRUE), dis, FALSE)

----------------------------------------------------------------------------
(* Textual override grammar: `path.to.key=value`, literal-scalar values *)

IndexOf(s, c) ==
    IF c \in Range(s) THEN CHOOSE i \in DOMAIN s : s[i] = c /\ \A j \in 1..(i - 1) : s[j] # c
    ELSE 0

BoolValue(b) == [type |-> "bool", v |-> b]
StringValue(str) == [type |-> "string", v |-> str]

\* reads a basic string whose opening quote is raw[1], from position i on;
\* None when it is not exactly one basic string
RECURSIVE ScanBasicString(_, _, _)
ScanBasicString(raw, i, acc) ==
    IF i > Len(raw) THEN None
    ELSE IF raw[i] = DQ THEN (IF i = Len(raw) THEN Some(acc) ELSE None)
    ELSE IF raw[i] = NL THEN None
    ELSE IF raw[i] = BS THEN
        IF i + 1 > Len(raw) THEN None
        ELSE IF raw[i + 1] = DQ THEN ScanBasicString(raw, i + 2, Append(acc, DQ))
        ELSE IF raw[i + 1] = BS THEN ScanBasicString(raw, i + 2, Append(acc, BS))
        ELSE IF raw[i + 1] = "n" THEN ScanBasicString(raw, i + 2, Append(acc, NL))
        ELSE None
    ELSE ScanBasicString(raw, i + 1, Append(acc, raw[i]))

\* a value: a boolean, a quoted string, or else the text as it stands
ParseScalar(raw) ==
    IF raw = <<"true">> THEN BoolValue(TRUE)
    ELSE IF raw = <<"false">> THEN BoolValue(FALSE)
    ELSE IF raw # <<>> /\ raw[1] = DQ /\ IsSome(ScanBasicString(raw, 2, <<>>))
         THEN StringValue(Unwrap(ScanBasicString(raw, 2, <<>>)))
    ELSE StringValue(raw)

\* one override string: split at the first `=`; None when there is none
ParseOverride(s) ==
    LET i == IndexOf(s, EQ)
    IN  IF i = 0 THEN None
        ELSE Some([path |-> SubSeq(s, 1, i - 1),
                   value |-> ParseScalar(SubSeq(s, i + 1, Len(s)))])

\* CliConfigOverrides::parse_overrides: every entry parsed, in order, or an error
parse_overrides(raw) ==
    IF \E i \in DOMAIN raw : ParseOverride(raw[i]) = None THEN None
    ELSE Some([i \in DOMAIN raw |-> Unwrap(ParseOverride(raw[i]))])

\* the entries folded in sequence order into a map keyed by path, last wins
RECURSIVE FoldOverrides(_)
FoldOverrides(kvs) ==
    IF kvs = <<>> THEN EmptyMap
    ELSE LET k == kvs[Len(kvs)]
         IN  Insert(FoldOverrides(SubSeq(kvs, 1, Len(kvs) - 1)), k.path, k.value)

EnabledPath(name) == <<"subagents", DOT, name, DOT, "enabled">>

----------------------------------------------------------------------------
(* TomlValue::String(prompt).to_string(): a TOML basic string.  The crate  *)
(* may pick another TOML quoting style for the same text; the basic string *)
(* is the style modelled, with the escapes of the TOML grammar.            *)

EscapeChar(c) ==
    IF c = DQ THEN <<BS, DQ>>
    ELSE IF c = BS THEN <<BS, BS>>
    ELSE IF c = NL THEN <<BS, "n">>
    ELSE <<c>>

\* mutant: the text between quotes, unescaped
TomlString_unescaped(str) == <<DQ>> \o str \o <<DQ>>

TomlString(str) == <<DQ>> \o Concat([i \in DOMAIN str |-> EscapeChar(str[i])]) \o <<DQ>>

\* format!("base_instructions={encoded}")
BaseInstructionsOverride(prompt) == <<"base_instructions", EQ>> \o TomlString(prompt)

----------------------------------------------------------------------------
(* Definition Store: the configuration loader *)

\* SubagentToml::default()
DefaultSubagentToml ==
    [display_name |-> None, description |-> None, system_prompt |-> None,
     enabled |-> None, tools |-> <<>>, context |-> <<>>, triggers |-> <<>>]

IsEnabledPath(path) ==
    /\ Len(path) = 5
    /\ path = EnabledPath(path[3])

\* the textual overrides laid over the base configuration, in order; only the
\* paths `subagents.<name>.enabled` concern the Definition Store
RECURSIVE ApplyTextual(_, _)
ApplyTextual(base, kvs) ==
    IF kvs = <<>> THEN base
    ELSE LET k == Head(kvs)
             n == k.path[3]
             old == IF n \in DOMAIN base THEN base[n] ELSE DefaultSubagentToml
         IN  IF IsEnabledPath(k.path) /\ k.value.type = "bool"
             THEN ApplyTextual(Insert(base, n, [old EXCEPT !.enabled = Some(k.value.v)]),
                               Tail(kvs))
             ELSE ApplyTextual(base, Tail(kvs))

\* Config::load_from_base_config_with_overrides, the subagents of the result:
\* one SubagentDefinition per SubagentToml; `enabled` is the toggle when the
\* name has one, else the configured value, else true
load_from_base_config_with_overrides(base, structured) ==
    [n \in DOMAIN base |->
        [display_name    |-> base[n].display_name,
         description     |-> base[n].description,
         system_prompt   |-> base[n].system_prompt,
         enabled         |-> IF n \in DOMAIN structured.subagent_toggles
                             THEN structured.subagent_toggles[n]
                             ELSE IF IsSome(base[n].enabled) THEN Unwrap(base[n].enabled)
                             ELSE TRUE,
         allowed_tools   |-> base[n].tools,
         context_sources |-> base[n].context,
         triggers        |-> base[n].triggers]]

\* Config::load_with_cli_overrides
load_with_cli_overrides(base, kv_overrides, structured) ==
    load_from_base_config_with_overrides(ApplyTextual(base, kv_overrides), structured)

\* ConfigOverrides { subagent_toggles: toggles.to_map(), ..Default::default() }
StructuredOverrides(en, dis) == [subagent_toggles |-> to_map(en, dis)]

\* mutant: the toggles are left out of the structured overrides
load_config_default_overrides(base, overrides, en, dis) ==
    LET kv == parse_overrides(overrides)
    IN  IF kv = None THEN None
        ELSE Some(load_with_cli_overrides(base, Unwrap(kv), [subagent_toggles |-> EmptyMap]))

\* load_config: None when the textual overrides do not parse, else the
\* resolved subagents
load_config(base, overrides, en, dis) ==
    LET kv == parse_overrides(overrides)
    IN  IF kv = None THEN None
        ELSE Some(load_with_cli_overrides(base, Unwrap(kv), StructuredOverrides(en, dis)))

ConfigLoadError == <<"Invalid override (missing '=')">>

\* mutant: the message does not name the subagent
UnknownSubagent_unnamed(name) == <<"unknown subagent">>

\* anyhow!: the text "unknown subagent", then the name between backquotes
UnknownSubagent(name) == <<"unknown subagent ", BQ, name, BQ>>

----------------------------------------------------------------------------
(* list and show *)

\* the names of the model in the order of BTreeMap<String, _>
NameOrder == <<"ghost", "reviewer", "tester">>

SortedKeys(m) == SelectSeq(NameOrder, LAMBDA n : n \in DOMAIN m)

\* strs.join(", ")
RECURSIVE Join(_)
Join(strs) ==
    IF strs = <<>> THEN <<>>
    ELSE IF Len(strs) = 1 THEN <<strs[1]>>
    ELSE <<strs[1], ", ">> \o Join(Tail(strs))

Line(label, value) == [label |-> label, value |-> value]

\* print_subagent_list: the lines printed
print_subagent_list(defs) ==
    IF DOMAIN defs = {} THEN <<Line("No subagents are configured.", <<>>)>>
    ELSE <<Line("Name", <<"Enabled", "Display Name">>)>> \o
         [i \in 1..Len(SortedKeys(defs)) |->
            LET n == SortedKeys(defs)[i]
            IN  Line(n, <<IF defs[n].enabled THEN "yes" ELSE "no",
                          IF IsSome(defs[n].display_name)
                          THEN Unwrap(defs[n].display_name) ELSE "-">>)]

\* mutant: an empty allowed_tools prints no line
show_human_tools_skipped(name, d) ==
    <<Line("Name", <<name>>)>>
    \o (IF IsSome(d.display_name)
        THEN <<Line("Display name", <<Unwrap(d.display_name)>>)>> ELSE <<>>)
    \o (IF IsSome(d.description)
        THEN <<Line("Description", <<Unwrap(d.description)>>)>> ELSE <<>>)
    \o <<Line("Enabled", <<IF d.enabled THEN "true" ELSE "false">>)>>
    \o (IF IsSome(d.system_prompt)
        THEN <<Line("System prompt", <<NL>> \o Unwrap(d.system_prompt))>> ELSE <<>>)
    \o (IF d.allowed_tools = <<>> THEN <<>>
        ELSE <<Line("Allowed tools", Join(d.allowed_tools))>>)
    \o <<Line("Context sources",
              IF d.context_sources = <<>> THEN <<"(none)">>
              ELSE Join(d.context_sources))>>
    \o <<Line("Triggers",
              IF d.triggers = <<>> THEN <<"(manual)">> ELSE Join(d.triggers))>>

\* SubagentShowFormat::Human: the lines printed, one per println!
show_human(name, d) ==
    <<Line("Name", <<name>>)>>
    \o (IF IsSome(d.display_name)
        THEN <<Line("Display name", <<Unwrap(d.display_name)>>)>> ELSE <<>>)
    \o (IF IsSome(d.description)
        THEN <<Line("Description", <<Unwrap(d.description)>>)>> ELSE <<>>)
    \o <<Line("Enabled", <<IF d.enabled THEN "true" ELSE "false">>)>>
    \o (IF IsSome(d.system_prompt)
        THEN <<Line("System prompt", <<NL>> \o Unwrap(d.system_prompt))>> ELSE <<>>)
    \o <<Line("Allowed tools",
              IF d.allowed_tools = <<>> THEN <<"(inherit default)">>
              ELSE Join(d.allowed_tools))>>
    \o <<Line("Context sources",
              IF d.context_sources = <<>> THEN <<"(none)">>
              ELSE Join(d.context_sources))>>
    \o <<Line("Triggers",
              IF d.triggers = <<>> THEN <<"(manual)">> ELSE Join(d.triggers))>>

\* serde_json of an Option<String>, a bool, a Vec<String>
JsonOption(o) == IF IsSome(o) THEN [json |-> "string", v |-> Unwrap(o)] ELSE [json |-> "null"]
JsonBool(b) == [json |-> "bool", v |-> b]
JsonArray(a) == [json |-> "array", v |-> a]

\* SubagentShowFormat::Json: the members of the payload object
show_json(name, d) ==
    <<Line("name", [json |-> "string", v |-> name]),
      Line("display_name", JsonOption(d.display_name)),
      Line("description", JsonOption(d.description)),
      Line("enabled", JsonBool(d.enabled)),
      Line("system_prompt", JsonOption(d.system_prompt)),
      Line("allowed_tools", JsonArray(d.allowed_tools)),
      Line("context_sources", JsonArray(d.context_sources)),
      Line("triggers", JsonArray(d.triggers))>>

----------------------------------------------------------------------------
(* run: the executor's argument vector and override sequence *)

\* SandboxModeCliArg::to_possible_value().get_name(): the kebab-case name
PossibleValueName(mode) ==
    CASE mode = "ReadOnly" -> "read-only"
      [] mode = "WorkspaceWrite" -> "workspace-write"
      [] mode = "DangerFullAccess" -> "danger-full-access"

\* the tokens pushed on argv, in the order of the pushes
ExecArgv(args) ==
    <<"codex-subagent-run">>
    \o (IF args.json THEN <<"--json">> ELSE <<>>)
    \o (IF args.oss THEN <<"--oss">> ELSE <<>>)
    \o (IF args.full_auto THEN <<"--full-auto">> ELSE <<>>)
    \o (IF args.dangerously_bypass_approvals_and_sandbox
        THEN <<"--dangerously-bypass-approvals-and-sandbox">> ELSE <<>>)
    \o (IF IsSome(args.sandbox_mode)
        THEN <<"--sandbox", PossibleValueName(Unwrap(args.sandbox_mode))>> ELSE <<>>)
    \o (IF IsSome(args.model) THEN <<"-m", Unwrap(args.model)>> ELSE <<>>)
    \o (IF IsSome(args.config_profile) THEN <<"-p", Unwrap(args.config_profile)>> ELSE <<>>)
    \o (IF IsSome(args.cwd) THEN <<"-C", Unwrap(args.cwd)>> ELSE <<>>)
    \o (IF IsSome(args.prompt) THEN <<Unwrap(args.prompt)>> ELSE <<>>)

\* mutant: the root overrides are appended, not spliced in at the front
SpliceRoot_appended(root, own) == own \o root

\* raw_overrides.splice(0..0, root_overrides.raw_overrides)
SpliceRoot(root, own) == root \o own

\* mutant: the forced enable is pushed before the toggle overrides
ExecOverrides_forced_first(name, overrides, en, dis, definition) ==
    overrides
    \o <<EnabledOverride(name, TRUE)>>
    \o to_cli_overrides(en, dis)
    \o (IF IsSome(definition.system_prompt)
        THEN <<BaseInstructionsOverride(Unwrap(definition.system_prompt))>> ELSE <<>>)

\* exec_cli.config_overrides.raw_overrides after the extends and pushes; the
\* vector is empty after ExecCli::parse_from(argv)
ExecOverrides(name, overrides, en, dis, definition) ==
    overrides
    \o to_cli_overrides(en, dis)
    \o <<EnabledOverride(name, TRUE)>>
    \o (IF IsSome(definition.system_prompt)
        THEN <<BaseInstructionsOverride(Unwrap(definition.system_prompt))>> ELSE <<>>)

----------------------------------------------------------------------------
(* SubagentsCli::run, one action per subcommand *)

ListCmd ==
    /\ pc = "start"
    /\ cmdline.command.op = "list"
    /\ LET overrides == SpliceRoot(cmdline.root_overrides, config_overrides)
           loaded == load_config(cfg, overrides, enable, disable)
       IN  /\ config_overrides' = overrides
           /\ IF loaded = None
              THEN /\ err' = Some(ConfigLoadError)
                   /\ UNCHANGED <<subagent_toggles, subagents, stdout>>
              ELSE /\ subagent_toggles' = StructuredOverrides(enable, disable).subagent_toggles
                   /\ subagents' = Unwrap(loaded)
                   /\ stdout' = print_subagent_list(Unwrap(loaded))
                   /\ err' = None
    /\ pc' = "done"
    /\ UNCHANGED <<cmdline, cfg, enable, disable, argv, raw_overrides, dispatched>>

ShowCmd ==
    /\ pc = "start"
    /\ cmdline.command.op = "show"
    /\ LET args == cmdline.command
           overrides == SpliceRoot(cmdline.root_overrides, config_overrides)
           loaded == load_config(cfg, overrides, enable, disable)
       IN  /\ config_overrides' = overrides
           /\ IF loaded = None
              THEN /\ err' = Some(ConfigLoadError)
                   /\ UNCHANGED <<subagent_toggles, subagents, stdout>>
              ELSE /\ subagent_toggles' = StructuredOverrides(enable, disable).subagent_toggles
                   /\ subagents' = Unwrap(loaded)
                   /\ IF args.name \notin DOMAIN Unwrap(loaded)
                      THEN /\ err' = Some(UnknownSubagent(args.name))
                           /\ UNCHANGED stdout
                      ELSE /\ stdout' = IF args.format = "Human"
                                        THEN show_human(args.name, Unwrap(loaded)[args.name])
                                        ELSE show_json(args.name, Unwrap(loaded)[args.name])
                           /\ err' = None
    /\ pc' = "done"
    /\ UNCHANGED <<cmdline, cfg, enable, disable, argv, raw_overrides, dispatched>>

ExecutorError == <<"executor failed">>

\* run_subagent; codex_exec::run_main is awaited once and its outcome, which
\* the executor owns, is returned as it is
RunCmd ==
    /\ pc = "start"
    /\ cmdline.command.op = "run"
    /\ \E exec_ok \in BOOLEAN :
       LET args == cmdline.command
           overrides == SpliceRoot(cmdline.root_overrides, config_overrides)
           loaded == load_config(cfg, overrides, enable, disable)
       IN  /\ config_overrides' = overrides
           /\ IF loaded = None
              THEN /\ err' = Some(ConfigLoadError)
                   /\ UNCHANGED <<subagent_toggles, subagents, argv, raw_overrides, dispatched>>
              ELSE /\ subagent_toggles' = StructuredOverrides(enable, disable).subagent_toggles
                   /\ subagents' = Unwrap(loaded)
                   /\ IF args.name \notin DOMAIN Unwrap(loaded)
                      THEN /\ err' = Some(UnknownSubagent(args.name))
                           /\ UNCHANGED <<argv, raw_overrides, dispatched>>
                      ELSE /\ argv' = ExecArgv(args)
                           /\ raw_overrides' = ExecOverrides(args.name, overrides, enable,
                                                             disable, Unwrap(loaded)[args.name])
                           /\ dispatched' = Append(dispatched,
                                                   [argv |-> argv', raw_overrides |-> raw_overrides'])
                           /\ err' = IF exec_ok THEN None ELSE Some(ExecutorError)
    /\ pc' = "done"
    /\ UNCHANGED <<cmdline, cfg, enable, disable, stdout>>

Next == ListCmd \/ ShowCmd \/ RunCmd

----------------------------------------------------------------------------
(* Inputs *)

ToggleKinds == {"enable", "disable"}

\* the configuration of the test resolves_subagents_and_overrides_enabled_state
ReviewerToml ==
    [display_name |-> Some("Reviewer"), description |-> Some("Focus on code review feedback"),
     system_prompt |-> Some(<<"Provide review comments">>), enabled |-> Some(TRUE),
     tools |-> <<"apply_patch">>, context |-> <<"diff">>, triggers |-> <<"/review">>]

TesterToml == [DefaultSubagentToml EXCEPT !.system_prompt = Some(<<"Run the test suite">>)]

Cfg(reviewer, tester) == [n \in {"reviewer", "tester"} |->
                            IF n = "reviewer" THEN reviewer ELSE tester]

TestCfg == Cfg(ReviewerToml, TesterToml)

ListCommand == [op |-> "list"]
ShowCommand(name, format) == [op |-> "show", name |-> name, format |-> format]

\* SubagentRunArgs with every flag at its default
DefaultRunArgs(name) ==
    [op |-> "run", name |-> name, prompt |-> None, json |-> FALSE, oss |-> FALSE,
     full_auto |-> FALSE, dangerously_bypass_approvals_and_sandbox |-> FALSE,
     sandbox_mode |-> None, cwd |-> None, config_profile |-> None, model |-> None]

CmdLine(root, own, flags, command) ==
    [root_overrides |-> root, overrides |-> own, flags |-> flags, command |-> command]

\* the state when SubagentsCli::run is entered: clap has filled the fields
InitWith(cl, base) ==
    /\ cmdline = cl
    /\ cfg = base
    /\ enable = AppendValues(cl.flags, "enable")
    /\ disable = AppendValues(cl.flags, "disable")
    /\ config_overrides = cl.overrides
    /\ pc = "start"
    /\ subagent_toggles = EmptyMap
    /\ subagents = EmptyMap
    /\ argv = <<>>
    /\ raw_overrides = <<>>
    /\ dispatched = <<>>
    /\ stdout = <<>>
    /\ err = None

RootOverrideStrings == {<<"model", EQ, "o3">>, EnabledOverride("reviewer", FALSE)}
SubOverrideStrings == {EnabledOverride("reviewer", FALSE), <<"sandbox_mode">>}

MainConfigs ==
    {TestCfg,
     Cfg([ReviewerToml EXCEPT !.enabled = Some(FALSE)], DefaultSubagentToml)}

MainCommands ==
    {ListCommand, ShowCommand("reviewer", "Human"), ShowCommand("ghost", "Json")}
    \cup {[DefaultRunArgs(n) EXCEPT !.prompt = Some("fix the bug")] :
            n \in {"reviewer", "tester", "ghost"}}

Init ==
    \E root \in SeqsUpTo(RootOverrideStrings, MaxOverrides),
       own \in SeqsUpTo(SubOverrideStrings, MaxOverrides),
       flags \in SeqsUpTo({ToggleFlag(k, n) : k \in ToggleKinds, n \in {"reviewer", "tester"}},
                          MaxRunFlags),
       command \in MainCommands,
       base \in MainConfigs :
        InitWith(CmdLine(root, own, flags, command), base)

Spec == Init /\ [][Next]_vars

\* Toggle flags in every interleaving, over configured and unconfigured names
OptionalBools == {None, Some(TRUE), Some(FALSE)}

InitToggles ==
    \E flags \in SeqsUpTo({ToggleFlag(k, n) : k \in ToggleKinds,
                                              n \in {"reviewer", "tester", "ghost"}},
                          MaxFlags),
       command \in {ListCommand, ShowCommand("tester", "Json"), DefaultRunArgs("reviewer")},
       re \in OptionalBools,
       te \in OptionalBools :
        InitWith(CmdLine(<<>>, <<>>, flags, command),
                 Cfg([ReviewerToml EXCEPT !.enabled = re], [TesterToml EXCEPT !.enabled = te]))

SpecToggles == InitToggles /\ [][Next]_vars

\* Definitions with every combination of absent fields and empty sequences
ShowTomls ==
    {[display_name |-> dn, description |-> de, system_prompt |-> sp, enabled |-> Some(TRUE),
      tools |-> tl, context |-> cx, triggers |-> tr] :
        dn \in {None, Some("Reviewer")},
        de \in {None, Some("Focus on code review feedback")},
        sp \in {None, Some(<<"Provide review comments">>)},
        tl \in {<<>>, <<"apply_patch", "shell">>},
        cx \in {<<>>, <<"diff">>},
        tr \in {<<>>, <<"/review">>}}

InitShow ==
    \E toml \in ShowTomls,
       command \in {ListCommand, ShowCommand("reviewer", "Human"),
                    ShowCommand("reviewer", "Json"), ShowCommand("ghost", "Human"),
                    DefaultRunArgs("reviewer")},
       flags \in {<<>>, <<ToggleFlag("disable", "reviewer")>>} :
        InitWith(CmdLine(<<>>, <<>>, flags, command), Cfg(toml, TesterToml))

SpecShow == InitShow /\ [][Next]_vars

\* Run requests with every combination of executor flags
SandboxModes == {"ReadOnly", "WorkspaceWrite", "DangerFullAccess"}

RunRequests ==
    {[op |-> "run", name |-> "reviewer", prompt |-> pr, json |-> js, oss |-> os,
      full_auto |-> fa, dangerously_bypass_approvals_and_sandbox |-> by,
      sandbox_mode |-> sm, cwd |-> cd, config_profile |-> pf, model |-> md] :
        pr \in {None, Some("fix the bug"), Some("--json")},
        js \in BOOLEAN, os \in BOOLEAN, fa \in BOOLEAN, by \in BOOLEAN,
        sm \in {None} \cup {Some(m) : m \in SandboxModes},
        cd \in {None, Some("/work")},
        pf \in {None, Some("dev")},
        md \in {None, Some("o3")}}

InitAssemble ==
    \E command \in RunRequests :
        InitWith(CmdLine(<<>>, <<>>, <<>>, command), TestCfg)

NextRun == RunCmd

SpecAssemble == InitAssemble /\ [][NextRun]_vars

\* System prompts made of quotes, backslashes, newlines and plain characters
PromptChars == {"n", DQ, BS, NL, EQ}

InitPrompt ==
    \E sp \in {None} \cup {Some(p) : p \in SeqsUpTo(PromptChars, MaxPromptLen)} :
        InitWith(CmdLine(<<>>, <<>>, <<ToggleFlag("disable", "reviewer")>>,
                         DefaultRunArgs("reviewer")),
                 Cfg([ReviewerToml EXCEPT !.system_prompt = sp], TesterToml))

SpecPrompt == InitPrompt /\ [][NextRun]_vars

----------------------------------------------------------------------------
(* Properties *)

Count(s, x) == Cardinality({i \in DOMAIN s : s[i] = x})

Done == pc = "done"
Requested == cmdline.command.name
\* the Definition Store was resolved: the textual overrides parsed
Resolved == Done /\ parse_overrides(config_overrides) # None
Dispatched == Done /\ dispatched # <<>>
\* the override sequence the executor received
Handed == dispatched[1].raw_overrides

EnableFlags == SelectSeq(cmdline.flags, LAMBDA f : f.kind = "enable")
DisableFlags == SelectSeq(cmdline.flags, LAMBDA f : f.kind = "disable")
FlagOverride(f) == EnabledOverride(f.name, f.kind = "enable")
FlagOverrides == [i \in DOMAIN cmdline.flags |-> FlagOverride(cmdline.flags[i])]
FlagNames == {cmdline.flags[i].name : i \in DOMAIN cmdline.flags}

PromptEntries ==
    IF IsSome(subagents[Requested].system_prompt)
    THEN <<<<"base_instructions", EQ>> \o TomlString(Unwrap(subagents[Requested].system_prompt))>>
    ELSE <<>>

\* the part of the handed sequence between the textual overrides and the
\* forced entry
ToggleSegment ==
    SubSeq(Handed, Len(config_overrides) + 1, Len(Handed) - 1 - Len(PromptEntries))

\* C1: for a run of a known subagent X the executor receives exactly the root
\* overrides, then the subcommand overrides, then one entry per toggle flag
\* (enables, then disables), then subagents.X.enabled=true, then
\* base_instructions=<encoded prompt> if X has a system prompt; and what is
\* dispatched is the sequence as constructed.
C1_OverrideLayering ==
    Dispatched =>
        /\ Handed = cmdline.root_overrides
                    \o cmdline.overrides
                    \o [i \in 1..Len(EnableFlags) |-> FlagOverride(EnableFlags[i])]
                    \o [i \in 1..Len(DisableFlags) |-> FlagOverride(DisableFlags[i])]
                    \o <<EnabledOverride(Requested, TRUE)>>
                    \o PromptEntries
        /\ Handed = raw_overrides
        /\ Len(dispatched) = 1

C1_Witness ==
    /\ Dispatched
    /\ cmdline.root_overrides # <<>>
    /\ cmdline.overrides # <<>>
    /\ cmdline.root_overrides # cmdline.overrides
    /\ EnableFlags # <<>>
    /\ DisableFlags # <<>>
    /\ PromptEntries # <<>>

\* C2: in every dispatched run of X the entry subagents.X.enabled=true stands
\* right after the last toggle-derived entry, nothing after it assigns that
\* path, the last-wins fold of the sequence gives enabled=true for X, and a
\* run of a known X is dispatched whether X resolved as enabled or not.
C2_ForcedEnable ==
    /\ Dispatched =>
        LET k == Len(config_overrides) + Len(cmdline.flags) + 1
            parsed == parse_overrides(Handed)
        IN  /\ k <= Len(Handed)
            /\ Handed[k] = EnabledOverride(Requested, TRUE)
            /\ \A f \in Range(cmdline.flags) :
                  Count(SubSeq(Handed, Len(config_overrides) + 1, k - 1), FlagOverride(f))
                    = Count(FlagOverrides, FlagOverride(f))
            /\ parsed # None
            /\ \A j \in (k + 1)..Len(Handed) : Unwrap(parsed)[j].path # EnabledPath(Requested)
            /\ FoldOverrides(Unwrap(parsed))[EnabledPath(Requested)] = BoolValue(TRUE)
    /\ (Resolved /\ cmdline.command.op = "run" /\ Requested \in DOMAIN subagents)
        => Len(dispatched) = 1

C2_Witness ==
    /\ Dispatched
    /\ Count(disable, Requested) >= 2
    /\ ~subagents[Requested].enabled
    /\ EnabledOverride(Requested, FALSE) \in Range(cmdline.overrides)

\* C5: when the requested name is absent from the resolved Definition Store,
\* show and run fail with a message that holds the requested name, and run
\* assembles nothing and dispatches nothing; a run of a known name dispatches
\* exactly once, whatever the executor's outcome.
C5_UnknownSubagent ==
    /\ (Resolved /\ cmdline.command.op \in {"show", "run"} /\ Requested \notin DOMAIN subagents)
        => /\ IsSome(err)
           /\ Requested \in Range(Unwrap(err))
           /\ argv = <<>>
           /\ raw_overrides = <<>>
           /\ dispatched = <<>>
           /\ stdout = <<>>
    /\ (Resolved /\ cmdline.command.op = "run" /\ Requested \in DOMAIN subagents)
        => /\ Len(dispatched) = 1
           /\ err \in {None, Some(ExecutorError)}

C5_Witness ==
    /\ Resolved
    /\ cmdline.command.op = "run"
    /\ Requested = "ghost"
    /\ Requested \notin DOMAIN subagents
    /\ cmdline.flags # <<>>
    /\ err = Some(<<"unknown subagent ", BQ, "ghost", BQ>>)

\* C3 as stated: the toggle-derived entries handed to the executor are the
\* flags of the command line in their original order, one entry per flag.
C3_OriginalFlagOrder ==
    Dispatched => ToggleSegment = FlagOverrides

\* C3 as amended: one entry per flag occurrence, duplicates kept; the entries
\* of the --enable flags come first, in the order of those flags, then the
\* entries of the --disable flags, in the order of those flags.
C3_EnableThenDisableOrder ==
    Dispatched =>
        /\ ToggleSegment = [i \in 1..Len(EnableFlags) |-> FlagOverride(EnableFlags[i])]
                           \o [i \in 1..Len(DisableFlags) |-> FlagOverride(DisableFlags[i])]
        /\ Len(ToggleSegment) = Len(cmdline.flags)
        /\ \A f \in Range(cmdline.flags) :
              Count(ToggleSegment, FlagOverride(f)) = Count(cmdline.flags, f)

C3_Witness ==
    /\ Dispatched
    /\ Len(cmdline.flags) = 3
    /\ cmdline.flags[1] = ToggleFlag("disable", "reviewer")
    /\ cmdline.flags[2] = ToggleFlag("enable", "reviewer")
    /\ cmdline.flags[3] = ToggleFlag("disable", "reviewer")
    /\ Len(ToggleSegment) = 3

\* C4: the toggle map has exactly the names of the flags as keys; a name with
\* a --disable flag maps to false, also when it has an --enable flag too; a
\* name maps to true only when it has an --enable flag and no --disable flag.
C4_EnabledMap ==
    Resolved =>
        /\ DOMAIN subagent_toggles = FlagNames
        /\ \A n \in FlagNames :
              /\ n \in Range(disable) => subagent_toggles[n] = FALSE
              /\ subagent_toggles[n] = TRUE
                    <=> (\E i \in DOMAIN cmdline.flags : cmdline.flags[i] = ToggleFlag("enable", n))
                        /\ ~(\E i \in DOMAIN cmdline.flags :
                                cmdline.flags[i] = ToggleFlag("disable", n))

C4_Witness ==
    /\ Resolved
    /\ cmdline.flags = <<ToggleFlag("disable", "reviewer"), ToggleFlag("enable", "tester"),
                         ToggleFlag("enable", "reviewer")>>
    /\ subagent_toggles = [n \in {"reviewer", "tester"} |-> n = "tester"]

\* C10: the last-wins fold of the entries to_cli_overrides() returned assigns
\* the path subagents.<name>.enabled exactly for the names to_map() has, each
\* with the boolean to_map() gives.
C10_ViewsAgree ==
    Dispatched =>
        LET parsed == parse_overrides(ToggleSegment)
            folded == FoldOverrides(Unwrap(parsed))
        IN  /\ parsed # None
            /\ DOMAIN folded = {EnabledPath(n) : n \in DOMAIN subagent_toggles}
            /\ \A n \in DOMAIN subagent_toggles :
                  folded[EnabledPath(n)] = BoolValue(subagent_toggles[n])

C10_Witness ==
    /\ Dispatched
    /\ \E n \in Range(enable) \cap Range(disable) :
          /\ Count(enable, n) = 2
          /\ subagent_toggles[n] = FALSE
    /\ Len(ToggleSegment) = 3

FieldOf(label) ==
    CASE label = "Name" -> "name"
      [] label = "Display name" -> "display_name"
      [] label = "Description" -> "description"
      [] label = "Enabled" -> "enabled"
      [] label = "System prompt" -> "system_prompt"
      [] label = "Allowed tools" -> "allowed_tools"
      [] label = "Context sources" -> "context_sources"
      [] label = "Triggers" -> "triggers"
      [] OTHER -> label

FieldsOf(lines) == {FieldOf(lines[i].label) : i \in DOMAIN lines}

AllFields == {"name", "display_name", "description", "enabled", "system_prompt",
              "allowed_tools", "context_sources", "triggers"}

Shown == Done /\ cmdline.command.op = "show" /\ err = None
ShownDefinition == subagents[Requested]
AbsentFields == {f \in {"display_name", "description", "system_prompt"} :
                    ShownDefinition[f] = None}
ValueOf(lines, field) == (CHOOSE i \in DOMAIN lines : FieldOf(lines[i].label) = field)

\* C7 as stated: what show prints in one format exposes the same fields as
\* what it prints for the same definition in the other format.
C7_SameFieldSet ==
    Shown => /\ FieldsOf(stdout) = FieldsOf(show_json(Requested, ShownDefinition))
             /\ FieldsOf(stdout) = FieldsOf(show_human(Requested, ShownDefinition))

\* C7 as amended: the JSON format exposes all eight fields, an absent value
\* as null and an empty sequence as an empty array; the human format exposes
\* name, enabled and the three sequences always, an empty sequence by an
\* explicit marker, and display name, description and system prompt exactly
\* when the value is present; no field is printed twice.
C7_FieldSetsByFormat ==
    Shown =>
        /\ Len(stdout) = Cardinality(FieldsOf(stdout))
        /\ cmdline.command.format = "Json" =>
              /\ FieldsOf(stdout) = AllFields
              /\ \A f \in AbsentFields : stdout[ValueOf(stdout, f)].value = [json |-> "null"]
              /\ \A f \in {"allowed_tools", "context_sources", "triggers"} :
                    stdout[ValueOf(stdout, f)].value = JsonArray(ShownDefinition[f])
        /\ cmdline.command.format = "Human" =>
              /\ FieldsOf(stdout) = AllFields \ AbsentFields
              /\ \A i \in DOMAIN stdout : stdout[i].value # <<>>

C7_Witness ==
    /\ Shown
    /\ cmdline.command.format = "Human"
    /\ AbsentFields = {"display_name", "system_prompt"}
    /\ ShownDefinition.allowed_tools = <<>>
    /\ ShownDefinition.triggers # <<>>
    /\ Len(stdout) = 6

BooleanFlags ==
    {<<"--json", cmdline.command.json>>,
     <<"--oss", cmdline.command.oss>>,
     <<"--full-auto", cmdline.command.full_auto>>,
     <<"--dangerously-bypass-approvals-and-sandbox",
       cmdline.command.dangerously_bypass_approvals_and_sandbox>>}

ValueFlags ==
    {<<"--sandbox", IF IsSome(cmdline.command.sandbox_mode)
                    THEN Some(PossibleValueName(Unwrap(cmdline.command.sandbox_mode)))
                    ELSE None>>,
     <<"-m", cmdline.command.model>>,
     <<"-p", cmdline.command.config_profile>>,
     <<"-C", cmdline.command.cwd>>}

\* C8: the token sequence handed to the executor holds each boolean flag
\* token once when its input is true and not at all otherwise, each
\* value-bearing flag token once, directly followed by its value, exactly
\* when the input is present, and the prompt, when present, as last token.
C8_TokenSequence ==
    Dispatched =>
        LET tokens == dispatched[1].argv
        IN  /\ \A b \in BooleanFlags : Count(tokens, b[1]) = IF b[2] THEN 1 ELSE 0
            /\ \A v \in ValueFlags :
                  IF IsSome(v[2])
                  THEN /\ Count(tokens, v[1]) = 1
                       /\ \E i \in 1..(Len(tokens) - 1) :
                             tokens[i] = v[1] /\ tokens[i + 1] = Unwrap(v[2])
                  ELSE Count(tokens, v[1]) = 0
            /\ IsSome(cmdline.command.prompt)
                  => tokens[Len(tokens)] = Unwrap(cmdline.command.prompt)

====
